---- MODULE Spec2Model ----
(***************************************************************************)
(* Model of 文件复制移动.py: a static registry of file pairs, a copy       *)
(* routine with overwrite (copy_files_with_replace), a watchdog handler    *)
(* with a per-pair debounce (FileChangeHandler.on_modified), the monitor   *)
(* loop (start_auto_monitor) and the command line entry point.             *)
(*                                                                         *)
(* A path is a pair <<directory, base name>>.  The filesystem is a partial *)
(* map from paths to contents (sequences of bytes); a file's size is the   *)
(* length of its content.  Time is counted in whole seconds.  Printed and   *)
(* typed text is a sequence of one-character strings.                      *)
(***************************************************************************)
EXTENDS Integers, Sequences, FiniteSets, TLC

\* ---------------------------------------------------------------- bounds
MaxLen == 3
MaxTime == 5
MaxEvents == 3
MaxQueue == 1
MaxInterrupts == 2

\* ------------------------------------------------------- program constants
\* the debounce window of on_modified, in seconds
Window == 2

\* ---------------------------------------------------------------- registry
PairIds == <<"pair1", "pair2", "pair3", "pair4", "pair5">>

file_pairs ==
  [ pair1 |-> [ source_files  |-> << <<"ff", "manifest.json">>, <<"ff", "main.js">>,
                                     <<"ff", "styles.css">> >>,
                target_folder |-> "t_ff" ],
    pair2 |-> [ source_files  |-> << <<"lm", "manifest.json">>, <<"lm", "theme.css">> >>,
                target_folder |-> "t_lm" ],
    pair3 |-> [ source_files  |-> << <<"ga", "manifest.json">>, <<"ga", "main.js">>,
                                     <<"ga", "styles.css">> >>,
                target_folder |-> "t_ga" ],
    pair4 |-> [ source_files  |-> << <<"off", "manifest.json">>, <<"off", "main.js">>,
                                     <<"off", "styles.css">> >>,
                target_folder |-> "t_note" ],
    pair5 |-> [ source_files  |-> << <<"off", "manifest.json">>, <<"off", "main.js">>,
                                     <<"off", "styles.css">> >>,
                target_folder |-> "t_ff" ] ]

Range(s) == { s[i] : i \in 1..Len(s) }

RegistryIds == Range(PairIds)

\* ------------------------------------------------------------------- paths
SourceDirs == {"ff", "lm", "ga", "off"}
TargetDirs == {"t_ff", "t_lm", "t_ga", "t_note"}
Dirs == SourceDirs \cup TargetDirs
Names == {"manifest.json", "main.js", "styles.css", "theme.css", "notes.txt"}
Paths == Dirs \X Names

\* Path(source_file).parent and Path(source_file).name
Parent(p) == p[1]
Name(p) == p[2]

VARIABLES
  fs,                   \* partial map: existing file |-> content
  dstate,               \* directory |-> "dir" | "absent" | "blocked"
  denied,               \* files whose open() raises (permissions, locks)
  c_pc,                 \* position inside copy_files_with_replace
  source_files, destination_folder,
  idx,                  \* index of the file of the for loop, 1-based
  success_count, error_count, total_source_size, total_dest_size,
  attempts,             \* history: <<source, outcome>> of every loop iteration
  entry,                \* history: the filesystem when the routine was called
  output,               \* the lines the current call has printed to sys.stdout
  m_pc,                 \* position of the main thread
  args,                 \* [auto, pairs]: the parsed command line
  typed,                \* history: the last line read by input(), and by which prompt
  size_bytes, formatted,  \* format_size: its argument and, once it returned, its result
  watch_pairs,          \* list of pair ids given to start_auto_monitor
  reported,             \* the invalid ids printed before exit(1)
  exit_code,            \* -1 while the process runs
  pair_i, total_success, total_error,   \* the copy-all loop of manual mode
  processed,            \* history: [pair, success, error] of each pair of that loop
  observer,             \* "new" | "running" | "stopping" | "dead"
  watched_dirs,         \* the set watched_dirs of start_auto_monitor
  watches,              \* the calls of observer.schedule: [path, recursive]
  queue,                \* the observer's event queue
  h_pc, h_event, h_i,   \* on_modified: position, event id, index in watch_pairs
  last_triggered,       \* FileChangeHandler.last_triggered
  now,                  \* time.time()
  evlog,                \* history of the events, by event id
  interrupts            \* history: one record per SIGINT delivered to the main thread

fsVars == <<fs, dstate, denied>>
copyVars == <<c_pc, source_files, destination_folder, idx, success_count,
              error_count, total_source_size, total_dest_size, attempts, entry,
              output>>
formatVars == <<size_bytes, formatted>>
mainVars == <<m_pc, args, typed, formatVars, processed, watch_pairs, reported, exit_code, pair_i,
              total_success, total_error>>
handlerVars == <<h_pc, h_event, h_i, last_triggered>>
watchVars == <<observer, watched_dirs, watches, queue, handlerVars, now, evlog, interrupts>>
vars == <<fsVars, copyVars, mainVars, watchVars>>

\* the process has not exited: its threads still run
Alive == m_pc # "exited"

\* ------------------------------------------------------------- filesystem
Exists(p) == p \in DOMAIN fs
Size(p) == Len(fs[p])

\* shutil.copy2(src, dst) raises instead of copying
Copy2Raises(src, dst) == src = dst \/ src \in denied \/ dst \in denied

\* (mutant) the file is moved: the source is gone afterwards
Copy2_move(src, dst) ==
  [ q \in (DOMAIN fs \cup {dst}) \ {src} |-> IF q = dst THEN fs[src] ELSE fs[q] ]

\* (mutant) the destination file is created but left empty
Copy2_empty(src, dst) ==
  [ q \in DOMAIN fs \cup {dst} |-> IF q = dst THEN <<>> ELSE fs[q] ]

\* the filesystem after shutil.copy2(src, dst) succeeded
Copy2(src, dst) ==
  [ q \in DOMAIN fs \cup {dst} |-> IF q = dst THEN fs[src] ELSE fs[q] ]

\* ------------------------------------------------------------ format_size
\* Text is a sequence of one-character strings.
DigitChars == <<"0", "1", "2", "3", "4", "5", "6", "7", "8", "9">>

\* f"{n}" of a non-negative int
RECURSIVE Str(_)
Str(n) == IF n < 10 THEN <<DigitChars[n + 1]>>
          ELSE Append(Str(n \div 10), DigitChars[(n % 10) + 1])

\* int(text) of a string of decimal digits
RECURSIVE Int_(_)
Int_(text) ==
  IF text = <<>> THEN 0
  ELSE 10 * Int_(SubSeq(text, 1, Len(text) - 1))
         + (CHOOSE d \in 0..9 : DigitChars[d + 1] = text[Len(text)])

\* num/den in hundredths as f"{num/den:.2f}" rounds it: to the nearest, and a
\* tie to the even hundredth (num/den is exact in a double for den a power of two)
Hundredths(num, den) ==
  LET q == (100 * num) \div den
      r == (100 * num) % den
  IN  IF 2 * r < den THEN q
      ELSE IF 2 * r > den THEN q + 1
      ELSE IF q % 2 = 0 THEN q ELSE q + 1

\* f"{num/den:.2f}"
Fixed2(num, den) ==
  LET h == Hundredths(num, den)
  IN  Str(h \div 100) \o <<".", DigitChars[((h \div 10) % 10) + 1], DigitChars[(h % 10) + 1]>>

\* (mutant) the first range includes 1024 itself
format_size_inclusive(b) ==
  IF b <= 1024 THEN Str(b) \o <<"B">>
  ELSE IF b < 1024 * 1024 THEN Fixed2(b, 1024) \o <<"K", "B">>
  ELSE Fixed2(b, 1024 * 1024) \o <<"M", "B">>

\* lines 9-16
format_size(b) ==
  IF b < 1024 THEN Str(b) \o <<"B">>
  ELSE IF b < 1024 * 1024 THEN Fixed2(b, 1024) \o <<"K", "B">>
  ELSE Fixed2(b, 1024 * 1024) \o <<"M", "B">>

\* lines 63-67 and 78-81: the sign and the size of a change, "+1.50KB"
Signed(change) ==
  (IF change > 0 THEN <<"+">> ELSE IF change < 0 THEN <<"-">> ELSE <<>>)
    \o format_size(IF change < 0 THEN -change ELSE change)

\* ---------------------------------------------------------- printed lines
\* A printed line is kept as its parts: kind is the fixed text of the line,
\* file the path or name in it, before/after the two sizes in parentheses,
\* delta the bracketed change (<<>> when the line has none) and counts the two
\* numbers of the summary line.
NoText == <<>>

\* line 41
MissingLine(source_file) ==
  [kind |-> "missing", file |-> source_file, before |-> NoText, after |-> NoText,
   delta |-> NoText, counts |-> <<>>]

\* line 73
FailedLine(source_file) ==
  [kind |-> "failed", file |-> source_file, before |-> NoText, after |-> NoText,
   delta |-> NoText, counts |-> <<>>]

\* (mutant) the change is bracketed on every success line
SuccessLine_always(source_file, orig_dest_size, dest_size) ==
  [kind |-> "copied", file |-> <<Name(source_file)>>,
   before |-> format_size(orig_dest_size), after |-> format_size(dest_size),
   delta |-> Signed(dest_size - orig_dest_size),
   counts |-> <<>>]

\* lines 62-69
SuccessLine(source_file, orig_dest_size, dest_size) ==
  [kind |-> "copied", file |-> <<Name(source_file)>>,
   before |-> format_size(orig_dest_size), after |-> format_size(dest_size),
   delta |-> IF orig_dest_size > 0 THEN Signed(dest_size - orig_dest_size) ELSE NoText,
   counts |-> <<>>]

\* (mutant) the destination total is printed from the source total
SummaryLine_source(successes, errors, total_source, total_dest) ==
  [kind |-> "summary", file |-> <<>>,
   before |-> format_size(total_source), after |-> format_size(total_source),
   delta |-> IF total_dest - total_source # 0
               THEN Signed(total_dest - total_source) ELSE NoText,
   counts |-> <<Str(successes) \o <<",">>, Str(errors)>>]

\* lines 76-84: the words after "成功:" and "失败:" are the two counts, the
\* first one with its comma
SummaryLine(successes, errors, total_source, total_dest) ==
  [kind |-> "summary", file |-> <<>>,
   before |-> format_size(total_source), after |-> format_size(total_dest),
   delta |-> IF total_dest - total_source # 0
               THEN Signed(total_dest - total_source) ELSE NoText,
   counts |-> <<Str(successes) \o <<",">>, Str(errors)>>]

\* -------------------------------------------------- copy_files_with_replace
Call(files, folder) ==
  /\ c_pc' = "call"
  /\ source_files' = files
  /\ destination_folder' = folder
  /\ idx' = 0
  /\ success_count' = 0
  /\ error_count' = 0
  /\ total_source_size' = 0
  /\ total_dest_size' = 0
  /\ attempts' = <<>>
  /\ entry' = [fs |-> fs, dstate |-> dstate]
  /\ output' = <<>>

\* lines 27-33: mkdir(parents=True, exist_ok=True), outside any try
CopyBegin ==
  /\ Alive
  /\ c_pc = "call"
  /\ IF dstate[destination_folder] = "blocked"
       THEN /\ c_pc' = "raised"
            /\ UNCHANGED <<dstate, idx>>
       ELSE /\ c_pc' = "loop"
            /\ dstate' = [dstate EXCEPT ![destination_folder] = "dir"]
            /\ idx' = 1
  /\ UNCHANGED <<fs, denied, source_files, destination_folder, success_count,
                 error_count, total_source_size, total_dest_size, attempts, entry,
                 output>>
  /\ UNCHANGED <<mainVars, watchVars>>

\* lines 40, 56, 72: what happens to one source file
Outcome(source_file, destination_file) ==
  IF ~Exists(source_file) THEN "missing"
  ELSE IF Copy2Raises(source_file, destination_file) THEN "error"
  ELSE "copied"

\* (mutant) a missing source is skipped without being counted
ErrorsAfter_uncounted(outcome) ==
  IF outcome = "error" THEN error_count + 1 ELSE error_count

\* lines 42 and 74: error_count after a file
ErrorsAfter(outcome) ==
  IF outcome = "copied" THEN error_count ELSE error_count + 1

\* (mutant) a failure ends the batch: the try encloses the loop
NextIndex_abort(outcome) ==
  IF outcome = "copied" THEN idx + 1 ELSE Len(source_files) + 1

\* lines 35, 43, 72: the loop goes on to the next file whatever the outcome
NextIndex(outcome) == idx + 1

\* lines 35-74: one iteration of the for loop
CopyFile ==
  /\ Alive
  /\ c_pc = "loop"
  /\ idx <= Len(source_files)
  /\ LET source_file == source_files[idx]
         destination_file == <<destination_folder, Name(source_file)>>
         outcome == Outcome(source_file, destination_file)
         orig_dest_size == IF Exists(destination_file) THEN Size(destination_file) ELSE 0
     IN  /\ attempts' = Append(attempts, <<source_file, outcome>>)
         /\ error_count' = ErrorsAfter(outcome)
         /\ idx' = NextIndex(outcome)
         /\ total_source_size' = IF outcome = "missing" THEN total_source_size
                                 ELSE total_source_size + Size(source_file)
         /\ IF outcome = "copied"
              THEN /\ fs' = Copy2(source_file, destination_file)
                   /\ total_dest_size' = total_dest_size + Len(fs'[destination_file])
                   /\ success_count' = success_count + 1
                   /\ output' = Append(output,
                                  SuccessLine(source_file, orig_dest_size,
                                              Len(fs'[destination_file])))
              ELSE /\ UNCHANGED <<fs, total_dest_size, success_count>>
                   /\ output' = Append(output,
                                  IF outcome = "missing" THEN MissingLine(source_file)
                                  ELSE FailedLine(source_file))
  /\ UNCHANGED <<dstate, denied, c_pc, source_files, destination_folder, entry>>
  /\ UNCHANGED <<mainVars, watchVars>>

\* lines 76-84: the summary line, then return
CopySummary ==
  /\ Alive
  /\ c_pc = "loop"
  /\ idx > Len(source_files)
  /\ c_pc' = "returned"
  /\ output' = Append(output, SummaryLine(success_count, error_count,
                                          total_source_size, total_dest_size))
  /\ UNCHANGED <<fsVars, source_files, destination_folder, idx, success_count,
                 error_count, total_source_size, total_dest_size, attempts, entry>>
  /\ UNCHANGED <<mainVars, watchVars>>

\* ------------------------------------------- the copy routine on any input
\* A call of copy_files_with_replace with any source list of at most MaxLen
\* paths of CopyUniverse and the folder "t_ff", on any of the filesystems below.
SeqsUpTo(S, n) == UNION { [1..k -> S] : k \in 0..n }

Restrict(f, S) == [ x \in S |-> f[x] ]

EmptyFs == [ p \in {} |-> <<>> ]

SrcContent ==
  (<<"ff", "main.js">> :> <<1>>) @@ (<<"off", "main.js">> :> <<2>>) @@
  (<<"ff", "styles.css">> :> <<3, 3>>)

CopyUniverse == DOMAIN SrcContent \cup { <<"t_ff", "main.js">> }

DestChoices ==
  { EmptyFs,
    (<<"t_ff", "notes.txt">> :> <<7>>),
    (<<"t_ff", "main.js">> :> <<>>),
    (<<"t_ff", "main.js">> :> <<9>>) @@ (<<"t_ff", "notes.txt">> :> <<7>>),
    (<<"t_ff", "main.js">> :> <<9, 9, 9>>) }

DeniedChoices == { {}, { <<"ff", "main.js">> }, { <<"t_ff", "styles.css">> } }

DirsInit(folder, d) ==
  [ x \in Dirs |-> IF x = folder THEN d
                   ELSE IF x \in SourceDirs THEN "dir" ELSE "absent" ]

\* nothing has been read from the terminal
NoInput == [prompt |-> "", text |-> <<>>]

\* format_size has not been called on its own
NoFormat == size_bytes = 0 /\ formatted = NoText

\* no program around the call: the routine is called directly
NoProgram ==
  /\ m_pc = "direct"
  /\ args = [auto |-> FALSE, pairs |-> <<>>]
  /\ typed = NoInput
  /\ watch_pairs = <<>>
  /\ reported = <<>>
  /\ exit_code = -1
  /\ pair_i = 0
  /\ processed = <<>>
  /\ total_success = 0
  /\ total_error = 0
  /\ observer = "new"
  /\ watched_dirs = {}
  /\ watches = <<>>
  /\ queue = <<>>
  /\ h_pc = "idle"
  /\ h_event = 0
  /\ h_i = 0
  /\ last_triggered = <<>>
  /\ now = Window
  /\ evlog = <<>>
  /\ interrupts = <<>>

InitCopy ==
  \E files \in SeqsUpTo(CopyUniverse, MaxLen), present \in SUBSET DOMAIN SrcContent,
     dest \in DestChoices, d \in {"dir", "absent", "blocked"}, den \in DeniedChoices :
    /\ d # "dir" => dest = EmptyFs
    /\ fs = Restrict(SrcContent, present) @@ dest
    /\ dstate = DirsInit("t_ff", d)
    /\ denied = den
    /\ c_pc = "call"
    /\ source_files = files
    /\ destination_folder = "t_ff"
    /\ idx = 0
    /\ success_count = 0
    /\ error_count = 0
    /\ total_source_size = 0
    /\ total_dest_size = 0
    /\ attempts = <<>>
    /\ entry = [fs |-> fs, dstate |-> dstate]
    /\ output = <<>>
    /\ NoProgram
    /\ NoFormat

NextCopy == CopyBegin \/ CopyFile \/ CopySummary

SpecCopy == InitCopy /\ [][NextCopy]_vars

\* ------------------------------------------------------- FileChangeHandler
\* line 176: self.watch_pairs = watch_pairs or list(file_pairs.keys())
HandlerWatchPairs == IF watch_pairs = <<>> THEN PairIds ELSE watch_pairs

\* lines 191-198: the watched pair at position j has the path among its sources
Matches(path, j) ==
  /\ HandlerWatchPairs[j] \in RegistryIds
  /\ path \in Range(file_pairs[HandlerWatchPairs[j]].source_files)

\* (mutant) the break of line 207 ends the scan of the watched pairs as well
NextMatch_first(path, from) ==
  LET js == { j \in 1..Len(HandlerWatchPairs) : Matches(path, j) }
  IN  IF js = {} \/ from > 1 THEN 0 ELSE CHOOSE j \in js : \A i \in js : j <= i

\* lines 190-198, 207: the first position from `from` on that matches the path
\* (0 when there is none); the break of line 207 ends the scan of one pair's
\* sources only, the scan of the watched pairs goes on after a copy
NextMatch(path, from) ==
  LET js == { j \in from..Len(HandlerWatchPairs) : Matches(path, j) }
  IN  IF js = {} THEN 0 ELSE CHOOSE j \in js : \A i \in js : j <= i

\* (mutant) the window is closed at its end: an event 2 seconds later is dropped
Debounced_closed(pair_id, current_time) ==
  current_time - last_triggered[pair_id] <= Window

\* line 201: the pair is inside its debounce window
Debounced(pair_id, current_time) ==
  current_time - last_triggered[pair_id] < Window

LogRead(id, j, verdict, finished) ==
  evlog' = [evlog EXCEPT ![id].reads = Append(@, <<j, now, verdict>>),
                         ![id].taken = IF @ < 0 THEN now ELSE @,
                         ![id].done = finished]

\* (mutant) the time of a dropped event is remembered as well
TriggeredAfterDrop_stamped(pair_id, current_time) ==
  [last_triggered EXCEPT ![pair_id] = current_time]

\* lines 201-202: the return leaves last_triggered as it was
TriggeredAfterDrop(pair_id, current_time) == last_triggered

\* lines 190-207 from position `from` of the watch list, for the event id
Scan(id, from) ==
  LET path == evlog[id].src_path
      j == NextMatch(path, from)
  IN  IF j = 0
        THEN /\ h_pc' = "idle"
             /\ evlog' = [evlog EXCEPT ![id].done = TRUE,
                                       ![id].taken = IF @ < 0 THEN now ELSE @]
             /\ UNCHANGED <<h_i, last_triggered, copyVars>>
        ELSE LET pair_id == HandlerWatchPairs[j]
                 pair == file_pairs[pair_id]
                 current_time == now
             IN  IF Debounced(pair_id, current_time)
                   THEN /\ h_pc' = "idle"
                        /\ LogRead(id, j, "drop", TRUE)
                        /\ last_triggered' = TriggeredAfterDrop(pair_id, current_time)
                        /\ UNCHANGED <<h_i, copyVars>>
                   ELSE /\ last_triggered' = [last_triggered EXCEPT ![pair_id] = current_time]
                        /\ h_pc' = "copying"
                        /\ h_i' = j
                        /\ LogRead(id, j, "copy", FALSE)
                        /\ Call(pair.source_files, pair.target_folder)

\* (mutant) every watch delivers its events on a thread of its own
ObserverIdle_threads == TRUE

\* lines 229, 242, 245: one Observer, hence one thread that delivers the events
\* of all the watches one after the other
ObserverIdle == h_pc = "idle"

\* (mutant) the observer thread goes on taking events after observer.stop()
ShouldKeepRunning_always == observer # "new"

\* lines 245 and 251: the observer thread takes events from observer.start()
\* until observer.stop()
ShouldKeepRunning == observer = "running"

\* lines 182-207: the observer thread takes the next event and calls on_modified
OnModified ==
  /\ Alive
  /\ ShouldKeepRunning
  /\ queue # <<>>
  /\ ObserverIdle
  /\ LET id == Head(queue)
     IN  /\ queue' = Tail(queue)
         /\ h_event' = id
         /\ IF evlog[id].is_directory
              THEN /\ h_pc' = "idle"
                   /\ evlog' = [evlog EXCEPT ![id].done = TRUE, ![id].taken = now]
                   /\ UNCHANGED <<h_i, last_triggered, copyVars>>
              ELSE Scan(id, 1)
  /\ UNCHANGED <<fsVars, mainVars, observer, watched_dirs, watches, now, interrupts>>

\* lines 206-207, 190: the copy returned; on to the next watched pair
HandlerResume ==
  /\ Alive
  /\ observer \in {"running", "stopping"}
  /\ h_pc = "copying"
  /\ c_pc = "returned"
  /\ Scan(h_event, h_i + 1)
  /\ UNCHANGED <<fsVars, mainVars, observer, watched_dirs, watches, queue, h_event, now,
                 interrupts>>

\* line 206: the copy raised (line 28); the exception ends the observer thread
HandlerCrash ==
  /\ Alive
  /\ observer \in {"running", "stopping"}
  /\ h_pc = "copying"
  /\ c_pc = "raised"
  /\ observer' = "dead"
  /\ h_pc' = "idle"
  /\ UNCHANGED <<fsVars, copyVars, mainVars, watched_dirs, watches, queue, h_event, h_i,
                 last_triggered, now, evlog, interrupts>>

\* ------------------------------------------------------ start_auto_monitor
\* lines 232-242
WatchedDirs(wp) ==
  { Parent(f) : f \in UNION { Range(file_pairs[id].source_files) :
                               id \in Range(wp) \cap RegistryIds } }

\* lines 233-238: the source files of the watched pairs, in the order of the loops
RECURSIVE WatchedFiles(_)
WatchedFiles(wp) ==
  IF wp = <<>> THEN <<>>
  ELSE (IF Head(wp) \in RegistryIds THEN file_pairs[Head(wp)].source_files ELSE <<>>)
       \o WatchedFiles(Tail(wp))

\* (mutant) the directory of every source file is scheduled, seen or not
RECURSIVE Schedule_every(_, _)
Schedule_every(files, seen) ==
  IF files = <<>> THEN <<>>
  ELSE <<[path |-> Parent(Head(files)), recursive |-> FALSE]>>
       \o Schedule_every(Tail(files), seen)

\* lines 239-242: one non-recursive watch for every directory not seen before
RECURSIVE Schedule(_, _)
Schedule(files, seen) ==
  IF files = <<>> THEN <<>>
  ELSE LET source_dir == Parent(Head(files))
       IN  IF source_dir \in seen
             THEN Schedule(Tail(files), seen)
             ELSE <<[path |-> source_dir, recursive |-> FALSE]>>
                  \o Schedule(Tail(files), seen \cup {source_dir})

\* lines 210-245: handler, observer, one watch per directory, observer.start()
StartMonitor ==
  /\ m_pc = "monitor"
  /\ last_triggered' = [ id \in Range(HandlerWatchPairs) |-> 0 ]
  /\ watched_dirs' = WatchedDirs(watch_pairs)
  /\ watches' = Schedule(WatchedFiles(watch_pairs), {})
  /\ observer' = "running"
  /\ m_pc' = "started"
  /\ UNCHANGED <<fsVars, copyVars, args, typed, formatVars, processed, watch_pairs, reported, exit_code, pair_i,
                 total_success, total_error, queue, h_pc, h_event, h_i, now, evlog,
                 interrupts>>

\* line 247: the main thread enters the try block
EnterLoop ==
  /\ m_pc = "started"
  /\ m_pc' = "loop"
  /\ UNCHANGED <<fsVars, copyVars, args, typed, formatVars, processed, watch_pairs, reported, exit_code, pair_i,
                 total_success, total_error, watchVars>>

\* lines 248-249: a second passes; an idle observer thread takes a waiting
\* event before the second is over
Tick ==
  /\ m_pc \in {"loop", "stopping"}
  /\ now < MaxTime
  /\ ~(observer = "running" /\ queue # <<>> /\ h_pc = "idle")
  /\ now' = now + 1
  /\ UNCHANGED <<fsVars, copyVars, mainVars, observer, watched_dirs, watches, queue,
                 handlerVars, evlog, interrupts>>

\* a file or a directory of a watched directory is modified
EventChoices ==
  { [src_path |-> <<"off", "main.js">>, is_directory |-> FALSE],
    [src_path |-> <<"ff", "main.js">>, is_directory |-> FALSE],
    [src_path |-> <<"off", "notes.txt">>, is_directory |-> FALSE],
    [src_path |-> <<"off", "sub">>, is_directory |-> TRUE] }

FileModified(e) ==
  /\ m_pc = "loop"
  /\ observer = "running"
  /\ Len(evlog) < MaxEvents
  /\ Len(queue) < MaxQueue
  /\ Parent(e.src_path) \in watched_dirs
  /\ evlog' = Append(evlog, [src_path |-> e.src_path, is_directory |-> e.is_directory,
                             at |-> now, taken |-> -1, reads |-> <<>>, done |-> FALSE])
  /\ queue' = Append(queue, Len(evlog) + 1)
  /\ UNCHANGED <<fsVars, copyVars, mainVars, observer, watched_dirs, watches, handlerVars,
                 now, interrupts>>

\* SIGINT: KeyboardInterrupt in the main thread; lines 250-252 catch it inside
\* the try block only, anywhere else it ends the process and its daemon thread
Interrupt ==
  /\ m_pc \in {"started", "loop", "stopping"}
  /\ Len(interrupts) < MaxInterrupts
  /\ interrupts' = Append(interrupts, [at |-> m_pc, observer |-> observer,
                                       copying |-> h_pc = "copying"])
  /\ IF m_pc = "loop"
       THEN /\ m_pc' = "stopping"
            /\ observer' = IF observer = "running" THEN "stopping" ELSE observer
            /\ UNCHANGED exit_code
       ELSE /\ m_pc' = "exited"
            /\ exit_code' = 130
            /\ UNCHANGED observer
  /\ UNCHANGED <<fsVars, copyVars, args, typed, formatVars, processed, watch_pairs, reported, pair_i, total_success,
                 total_error, watched_dirs, watches, queue, handlerVars, now, evlog>>

\* (mutant) the main thread does not wait for the observer thread
ObserverJoined_nowait == TRUE

\* line 254: observer.join() returns when the observer thread has ended
ObserverJoined == h_pc = "idle"

\* line 254 and the end of the script
Join ==
  /\ m_pc = "stopping"
  /\ ObserverJoined
  /\ m_pc' = "exited"
  /\ exit_code' = 0
  /\ UNCHANGED <<fsVars, copyVars, args, typed, formatVars, processed, watch_pairs, reported, pair_i, total_success,
                 total_error, watchVars>>

\* ------------------------------------------------------------- the selectors
\* the value of int(text): num is FALSE when int() raises ValueError
Num(k) == [num |-> TRUE, val |-> k]
NotNum == [num |-> FALSE, val |-> 0]

\* str.strip() of a typed line, whose only whitespace is the space
RECURSIVE Strip(_)
Strip(text) ==
  IF text = <<>> THEN text
  ELSE IF text[1] = " " THEN Strip(Tail(text))
  ELSE IF text[Len(text)] = " " THEN Strip(SubSeq(text, 1, Len(text) - 1))
  ELSE text

\* str.lower() on the letters of the typed lines
Lower(text) ==
  [ k \in 1..Len(text) |-> CASE text[k] = "A" -> "a"
                             [] text[k] = "L" -> "l"
                             [] OTHER -> text[k] ]

\* str.split(sep): never empty, "" gives [""]
RECURSIVE Split(_, _)
Split(text, sep) ==
  IF \E k \in 1..Len(text) : text[k] = sep
    THEN LET k == CHOOSE i \in 1..Len(text) :
                    text[i] = sep /\ \A j \in 1..(i - 1) : text[j] # sep
         IN  <<SubSeq(text, 1, k - 1)>> \o Split(SubSeq(text, k + 1, Len(text)), sep)
    ELSE <<text>>

\* int(text): surrounding spaces and one sign are accepted, then digits only
IntOf(text) ==
  LET t == Strip(text)
      body == IF t # <<>> /\ t[1] \in {"+", "-"} THEN Tail(t) ELSE t
  IN  IF body # <<>> /\ \A k \in 1..Len(body) : body[k] \in Range(DigitChars)
        THEN Num(IF t[1] = "-" THEN 0 - Int_(body) ELSE Int_(body))
        ELSE NotNum

\* lines 143-148
SelectCopyMode(line) ==
  /\ m_pc = "select_mode"
  /\ typed' = [prompt |-> "select_copy_mode", text |-> line]
  /\ LET choice == Strip(line)
     IN  IF choice \in {<<"1">>, <<"2">>}
           THEN m_pc' = IF IntOf(choice).val = 1 THEN "select_pair" ELSE "copy_all"
           ELSE UNCHANGED m_pc
  /\ UNCHANGED <<fsVars, copyVars, args, formatVars, processed, watch_pairs, reported,
                 exit_code, pair_i, total_success, total_error, watchVars>>

\* lines 159-168, then lines 315-317
SelectFilePair(line) ==
  /\ m_pc = "select_pair"
  /\ typed' = [prompt |-> "select_file_pair", text |-> line]
  /\ LET choice == IntOf(Strip(line))
     IN  IF choice.num /\ 1 <= choice.val /\ choice.val <= Len(PairIds)
           THEN /\ m_pc' = "copy_one"
                /\ pair_i' = choice.val
                /\ Call(file_pairs[PairIds[choice.val]].source_files,
                        file_pairs[PairIds[choice.val]].target_folder)
           ELSE UNCHANGED <<m_pc, pair_i, copyVars>>
  /\ UNCHANGED <<fsVars, args, formatVars, processed, watch_pairs, reported, exit_code,
                 total_success, total_error, watchVars>>

\* (mutant) a number out of range is skipped and the rest is returned
Selected_skip(idxs) ==
  IF \A k \in 1..Len(idxs) : idxs[k].num
    THEN LET ok == SelectSeq(idxs, LAMBDA x : 1 <= x.val /\ x.val <= Len(PairIds))
         IN  [ k \in 1..Len(ok) |-> PairIds[ok[k].val] ]
    ELSE <<>>

\* lines 271-282: the pairs selected by a list of numbers, <<>> when one is out
\* of range or not a number
Selected(idxs) ==
  IF \A k \in 1..Len(idxs) : idxs[k].num /\ 1 <= idxs[k].val /\ idxs[k].val <= Len(PairIds)
    THEN [ k \in 1..Len(idxs) |-> PairIds[idxs[k].val] ]
    ELSE <<>>

\* lines 265-284
SelectWatchPairs(line) ==
  /\ m_pc = "select_watch"
  /\ typed' = [prompt |-> "select_watch_pairs", text |-> line]
  /\ LET choice == Strip(line)
         parts == Split(choice, ",")
         indices == [ k \in 1..Len(parts) |-> IntOf(Strip(parts[k])) ]
     IN  IF Lower(choice) = <<"a", "l", "l">>
           THEN /\ watch_pairs' = PairIds
                /\ m_pc' = "monitor"
           ELSE IF Selected(indices) # <<>>
             THEN /\ watch_pairs' = Selected(indices)
                  /\ m_pc' = "monitor"
             ELSE UNCHANGED <<m_pc, watch_pairs>>
  /\ UNCHANGED <<fsVars, copyVars, args, formatVars, processed, reported, exit_code,
                 pair_i, total_success, total_error, watchVars>>

\* ---------------------------------------------------------------- __main__
\* line 297: `if args.pairs:`; <<>> stands for an absent option (None) and
\* <<"">> for an empty value, whose split(',') is [""]
Truthy(pairs) == pairs # <<>> /\ pairs # <<"">>

\* (mutant) only the first id of the list is validated
InvalidPairs_first(wp) ==
  IF wp # <<>> /\ wp[1] \notin RegistryIds THEN <<wp[1]>> ELSE <<>>

\* line 300
InvalidPairs(wp) == SelectSeq(wp, LAMBDA id : id \notin RegistryIds)

\* lines 293-310
ParseArgs ==
  /\ m_pc = "start"
  /\ IF args.auto
       THEN IF Truthy(args.pairs)
              THEN /\ watch_pairs' = args.pairs
                   /\ IF InvalidPairs(args.pairs) # <<>>
                        THEN /\ reported' = InvalidPairs(args.pairs)
                             /\ exit_code' = 1
                             /\ m_pc' = "exited"
                        ELSE /\ m_pc' = "monitor"
                             /\ UNCHANGED <<reported, exit_code>>
              ELSE /\ m_pc' = "select_watch"
                   /\ UNCHANGED <<watch_pairs, reported, exit_code>>
       ELSE /\ m_pc' = "select_mode"
            /\ UNCHANGED <<watch_pairs, reported, exit_code>>
  /\ UNCHANGED <<fsVars, copyVars, args, typed, formatVars, processed, pair_i, total_success, total_error, watchVars>>

\* lines 317 and 348: the single copy returned, the script ends
FinishOne ==
  /\ m_pc = "copy_one"
  /\ c_pc = "returned"
  /\ m_pc' = "exited"
  /\ exit_code' = 0
  /\ UNCHANGED <<fsVars, copyVars, args, typed, formatVars, processed, watch_pairs, reported, pair_i, total_success,
                 total_error, watchVars>>

\* lines 324-333: the next pair of the registry, or line 348 after the last
CopyAllNext ==
  /\ m_pc = "copy_all"
  /\ IF pair_i < Len(PairIds)
       THEN /\ pair_i' = pair_i + 1
            /\ m_pc' = "copy_all_wait"
            /\ Call(file_pairs[PairIds[pair_i + 1]].source_files,
                    file_pairs[PairIds[pair_i + 1]].target_folder)
            /\ UNCHANGED exit_code
       ELSE /\ m_pc' = "exited"
            /\ exit_code' = 0
            /\ UNCHANGED <<pair_i, copyVars>>
  /\ UNCHANGED <<fsVars, args, typed, formatVars, processed, watch_pairs, reported, total_success, total_error,
                 watchVars>>

\* lines 336-339: the first captured line holding both "成功: " and "失败: "
SummaryIndex(lines) ==
  IF \E k \in 1..Len(lines) : lines[k].kind = "summary"
    THEN CHOOSE k \in 1..Len(lines) :
           /\ lines[k].kind = "summary"
           /\ \A j \in 1..(k - 1) : lines[j].kind # "summary"
    ELSE 0

\* str.replace(c, "")
Without(text, c) == SelectSeq(text, LAMBDA x : x # c)

\* lines 340-343: the words after "成功:" and "失败:", the comma removed, as ints
ParsedCounts(lines) ==
  LET words == lines[SummaryIndex(lines)].counts
  IN  <<Int_(Without(words[1], ",")), Int_(Without(words[2], ","))>>

\* lines 335-346: the counts are read back from the captured summary line
CopyAllParse ==
  /\ m_pc = "copy_all_wait"
  /\ c_pc = "returned"
  /\ IF SummaryIndex(output) = 0
       THEN UNCHANGED <<total_success, total_error>>
       ELSE /\ total_success' = total_success + ParsedCounts(output)[1]
            /\ total_error' = total_error + ParsedCounts(output)[2]
  /\ processed' = Append(processed, [pair |-> PairIds[pair_i], success |-> success_count,
                                     error |-> error_count])
  /\ m_pc' = "copy_all"
  /\ UNCHANGED <<fsVars, copyVars, args, typed, formatVars, watch_pairs, reported,
                 exit_code, pair_i, watchVars>>

\* lines 317, 333: the copy raised (line 28) and nothing catches it
MainCrash ==
  /\ m_pc \in {"copy_one", "copy_all_wait"}
  /\ c_pc = "raised"
  /\ m_pc' = "exited"
  /\ exit_code' = 1
  /\ UNCHANGED <<fsVars, copyVars, args, typed, formatVars, processed, watch_pairs, reported, pair_i, total_success,
                 total_error, watchVars>>

\* ------------------------------------------------------------- the program
\* the files of the registry: manifest.json of one byte, main.js of two,
\* styles.css empty, theme.css of one byte
RegistrySources == UNION { Range(file_pairs[id].source_files) : id \in RegistryIds }

RegistryContent(p) ==
  IF Name(p) = "main.js" THEN <<Len(Parent(p)), 1>>
  ELSE IF Name(p) = "styles.css" THEN <<>>
  ELSE <<Len(Parent(p))>>

\* the environments the program is started in
HealthyEnv == [missing |-> {}, denied |-> {}, blocked |-> {}]

EnvChoices ==
  { HealthyEnv,
    [missing |-> { <<"off", "manifest.json">> }, denied |-> { <<"ff", "main.js">> },
     blocked |-> {}],
    [missing |-> {}, denied |-> {}, blocked |-> {"t_ff"}] }

ArgChoices ==
  { [auto |-> FALSE, pairs |-> <<>>],
    [auto |-> FALSE, pairs |-> <<"pair9">>],
    [auto |-> TRUE, pairs |-> <<>>],
    [auto |-> TRUE, pairs |-> <<"">>],
    [auto |-> TRUE, pairs |-> <<"pair9">>],
    [auto |-> TRUE, pairs |-> <<"pair1", "pair9">>],
    [auto |-> TRUE, pairs |-> <<"pair4", "pair5">>],
    [auto |-> TRUE, pairs |-> <<"pair1", "pair1">>] }

\* the lines typed at the prompts
CopyModeInputs == { <<"1">>, <<"2">>, <<"3">>, <<" ", "2">>, <<>> }
FilePairInputs ==
  { Str(k) : k \in 0..(Len(PairIds) + 1) } \cup { <<"x">>, <<>>, <<"-", "1">>, <<"3", " ">> }
WatchInputs ==
  { <<"a", "l", "l">>, <<"A", "L", "L", " ">>, <<"1">>, <<"0">>, <<"1", ",", "x">>,
    <<"1", ",", "0">>, <<>> }

InitOf(a, env) ==
  /\ fs = [ p \in RegistrySources \ env.missing |-> RegistryContent(p) ]
  /\ dstate = [ x \in Dirs |-> IF x \in SourceDirs THEN "dir"
                               ELSE IF x \in env.blocked THEN "blocked" ELSE "absent" ]
  /\ denied = env.denied
  /\ c_pc = "idle"
  /\ source_files = <<>>
  /\ destination_folder = ""
  /\ idx = 0
  /\ success_count = 0
  /\ error_count = 0
  /\ total_source_size = 0
  /\ total_dest_size = 0
  /\ attempts = <<>>
  /\ entry = [fs |-> fs, dstate |-> dstate]
  /\ output = <<>>
  /\ m_pc = "start"
  /\ args = a
  /\ typed = NoInput
  /\ NoFormat
  /\ watch_pairs = <<>>
  /\ reported = <<>>
  /\ exit_code = -1
  /\ pair_i = 0
  /\ processed = <<>>
  /\ total_success = 0
  /\ total_error = 0
  /\ observer = "new"
  /\ watched_dirs = {}
  /\ watches = <<>>
  /\ queue = <<>>
  /\ h_pc = "idle"
  /\ h_event = 0
  /\ h_i = 0
  /\ last_triggered = <<>>
  /\ now = Window
  /\ evlog = <<>>
  /\ interrupts = <<>>

\* The program from its command line, in any of the environments, with the
\* events and the interrupts of a watch that lasts less than a second.
Init == \E a \in ArgChoices, env \in EnvChoices : InitOf(a, env)

Next ==
  \/ ParseArgs
  \/ \E choice \in CopyModeInputs : SelectCopyMode(choice)
  \/ \E choice \in FilePairInputs : SelectFilePair(choice)
  \/ \E choice \in WatchInputs : SelectWatchPairs(choice)
  \/ CopyBegin
  \/ CopyFile
  \/ CopySummary
  \/ FinishOne
  \/ CopyAllNext
  \/ CopyAllParse
  \/ MainCrash
  \/ StartMonitor
  \/ EnterLoop
  \/ \E e \in EventChoices : FileModified(e)
  \/ OnModified
  \/ HandlerResume
  \/ HandlerCrash
  \/ Interrupt
  \/ Join

Spec == Init /\ [][Next]_vars

\* the threads of a live process are scheduled and a filesystem call returns
FairSpec ==
  /\ Spec
  /\ WF_vars(CopyBegin) /\ WF_vars(CopyFile) /\ WF_vars(CopySummary)
  /\ WF_vars(HandlerResume) /\ WF_vars(HandlerCrash) /\ WF_vars(Join)

\* The watch mode over the seconds: the events arrive at any time, the copies
\* take any time, and no interrupt arrives.
WatchArgChoices == { a \in ArgChoices : a.auto /\ Range(a.pairs) \subseteq RegistryIds }

InitWatch == \E a \in WatchArgChoices : InitOf(a, HealthyEnv)

NextWatch ==
  \/ ParseArgs
  \/ \E choice \in WatchInputs : SelectWatchPairs(choice)
  \/ StartMonitor
  \/ EnterLoop
  \/ Tick
  \/ \E e \in EventChoices : FileModified(e)
  \/ OnModified
  \/ HandlerResume
  \/ CopyBegin
  \/ CopyFile
  \/ CopySummary

SpecWatch == InitWatch /\ [][NextWatch]_vars

\* ------------------------------------------------- format_size on any size
\* A call of format_size on its own, for the byte counts next to the two
\* thresholds, the small ones, and the ones whose quotient lies halfway
\* between two hundredths (odd multiples of 128 bytes and of 128 KB).
MaxProbe == 20

SizeInputs ==
  (0..MaxProbe)
    \cup { 1024 + d : d \in (0 - MaxProbe)..MaxProbe }
    \cup { 1024 * 1024 + d : d \in (0 - MaxProbe)..MaxProbe }
    \cup { 128 * k : k \in 1..MaxProbe }
    \cup { 128 * 1024 * k : k \in 1..MaxProbe }

InitFormat ==
  \E b \in SizeInputs :
    /\ size_bytes = b
    /\ formatted = NoText
    /\ fs = EmptyFs
    /\ dstate = DirsInit("t_ff", "absent")
    /\ denied = {}
    /\ c_pc = "idle"
    /\ source_files = <<>>
    /\ destination_folder = ""
    /\ idx = 0
    /\ success_count = 0
    /\ error_count = 0
    /\ total_source_size = 0
    /\ total_dest_size = 0
    /\ attempts = <<>>
    /\ entry = [fs |-> fs, dstate |-> dstate]
    /\ output = <<>>
    /\ NoProgram

\* format_size(size_bytes) returns
FormatSize ==
  /\ m_pc = "direct"
  /\ c_pc = "idle"
  /\ formatted = NoText
  /\ formatted' = format_size(size_bytes)
  /\ UNCHANGED <<fsVars, copyVars, m_pc, args, typed, processed, watch_pairs, reported,
                 exit_code, pair_i, total_success, total_error, size_bytes, watchVars>>

NextFormat == FormatSize

SpecFormat == InitFormat /\ [][NextFormat]_vars

\* ======================================================== the copy routine
N == Len(source_files)

DestinationOf(source_file) == <<destination_folder, Name(source_file)>>

Outcomes(o) == { k \in 1..Len(attempts) : attempts[k][2] = o }

\* C4: every file of the list is attempted in list order whatever happened to
\* the earlier ones, each is counted exactly once, and at the summary
\* success count + failure count = N.
C4_EveryFileAttempted ==
  /\ c_pc \in {"loop", "returned"} =>
       /\ Len(attempts) = idx - 1
       /\ \A k \in 1..Len(attempts) : attempts[k][1] = source_files[k]
       /\ success_count = Cardinality(Outcomes("copied"))
       /\ error_count = Cardinality(Outcomes("missing") \cup Outcomes("error"))
  /\ c_pc = "returned" =>
       /\ Len(attempts) = N
       /\ success_count + error_count = N

\* a missing file, then a file whose copy raises, then a file that is copied
C4_Witness ==
  /\ c_pc = "returned"
  /\ N = 3
  /\ attempts[1][2] = "missing"
  /\ attempts[2][2] = "error"
  /\ attempts[3][2] = "copied"

EmptyDestinationAtEntry ==
  /\ entry.dstate[destination_folder] = "dir"
  /\ \A q \in DOMAIN entry.fs : Parent(q) # destination_folder

AllExistAtEntry == \A k \in 1..N : source_files[k] \in DOMAIN entry.fs

CopiedIdentical ==
  \A k \in 1..N :
    /\ DestinationOf(source_files[k]) \in DOMAIN fs
    /\ fs[DestinationOf(source_files[k])] = entry.fs[source_files[k]]

\* C5 as stated: any list of N existing sources copied to an empty destination
\* directory gives success = N, failure = 0 and a byte-identical file in the
\* destination for every source of the list.
C5_Original ==
  (c_pc = "returned" /\ AllExistAtEntry /\ EmptyDestinationAtEntry) =>
     /\ success_count = N
     /\ error_count = 0
     /\ CopiedIdentical

Copyable(source_file) ==
  /\ source_file \in DOMAIN entry.fs
  /\ source_file \notin denied
  /\ DestinationOf(source_file) \notin denied
  /\ Parent(source_file) # destination_folder

NoNameClash ==
  \A j, k \in 1..N :
    Name(source_files[j]) = Name(source_files[k]) =>
      entry.fs[source_files[j]] = entry.fs[source_files[k]]

\* C5 amended: the same, for sources that can be read and written at their
\* destination and of which no two with different contents share a base name.
C5_Amended ==
  (/\ c_pc = "returned"
   /\ EmptyDestinationAtEntry
   /\ \A k \in 1..N : Copyable(source_files[k])
   /\ NoNameClash) =>
     /\ success_count = N
     /\ error_count = 0
     /\ CopiedIdentical

C5_Witness ==
  /\ c_pc = "returned"
  /\ EmptyDestinationAtEntry
  /\ N = 3
  /\ \A k \in 1..N : Copyable(source_files[k])
  /\ NoNameClash
  /\ Cardinality(Range(source_files)) > 1
  /\ success_count = 3

MissingAtEntry == { k \in 1..N : source_files[k] \notin DOMAIN entry.fs }

\* the last existing entry of the list with the base name of the existing entry k
LastNamed(k) ==
  CHOOSE j \in (1..N) \ MissingAtEntry :
    /\ Name(source_files[j]) = Name(source_files[k])
    /\ \A i \in ((j+1)..N) \ MissingAtEntry : Name(source_files[i]) # Name(source_files[k])

OneMissingAmongValid ==
  /\ Cardinality(MissingAtEntry) = 1
  /\ \A k \in (1..N) \ MissingAtEntry : Copyable(source_files[k])

\* C6: with one non-existent path among otherwise valid paths, at any
\* position, success = N-1 and failure = 1, every valid file is copied to the
\* destination, and the attempt on the missing path (like any failed attempt)
\* leaves the filesystem as it was.
C6_OneMissing ==
  /\ [](( c_pc = "returned" /\ OneMissingAmongValid ) =>
          /\ success_count = N - 1
          /\ error_count = 1
          /\ \A k \in (1..N) \ MissingAtEntry :
               /\ attempts[k] = <<source_files[k], "copied">>
               /\ DestinationOf(source_files[k]) \in DOMAIN fs
               /\ fs[DestinationOf(source_files[k])] =
                    entry.fs[source_files[LastNamed(k)]])
  /\ [][ ( /\ c_pc = "loop"
           /\ Len(attempts') = Len(attempts) + 1
           /\ attempts'[Len(attempts')][2] # "copied" ) =>
         (fs' = fs /\ dstate' = dstate) ]_vars

\* the missing path comes first, between two valid ones, or last
C6_Witness ==
  /\ c_pc = "returned"
  /\ N = 3
  /\ MissingAtEntry = {2}
  /\ OneMissingAmongValid
  /\ attempts[2][2] = "missing"
  /\ success_count = 2

\* ============================================================= the watcher
Reads(id) == evlog[id].reads

\* the number of copy invocations of an event
CopiesOf(id) ==
  Cardinality({ k \in 1..Len(Reads(id)) : Reads(id)[k][3] = "copy" })

MatchingPositions(path) ==
  { j \in 1..Len(HandlerWatchPairs) : Matches(path, j) }

\* the run so far consists of two handled modifications of one watched source
TwoEventsOnOneFile ==
  /\ Len(evlog) = 2
  /\ evlog[1].done /\ evlog[2].done
  /\ ~evlog[1].is_directory
  /\ evlog[1].src_path = evlog[2].src_path
  /\ MatchingPositions(evlog[1].src_path) # {}

\* C1 as stated: two modification events on a watched source file arriving
\* less than 2 seconds apart trigger exactly one copy invocation, and two
\* arriving 2 seconds or more apart trigger exactly two.
C1_Original ==
  TwoEventsOnOneFile =>
    CopiesOf(1) + CopiesOf(2) =
      IF evlog[2].at - evlog[1].at < Window THEN 1 ELSE 2

\* C1 amended: for a source file of exactly one entry of the watch list, two
\* modification events that the handler takes less than 2 seconds apart (by
\* its own reading of the clock) trigger exactly one copy invocation, and two
\* that it takes 2 seconds or more apart trigger exactly two.
C1_Amended ==
  (TwoEventsOnOneFile /\ Cardinality(MatchingPositions(evlog[1].src_path)) = 1) =>
    CopiesOf(1) + CopiesOf(2) =
      IF evlog[2].taken - evlog[1].taken < Window THEN 1 ELSE 2

\* the second event arrived one second after the first, during its copy, was
\* taken two seconds after it and triggered a second copy
C1_Witness ==
  /\ TwoEventsOnOneFile
  /\ Cardinality(MatchingPositions(evlog[1].src_path)) = 1
  /\ evlog[2].at - evlog[1].at < Window
  /\ evlog[2].taken - evlog[1].taken >= Window
  /\ CopiesOf(1) + CopiesOf(2) = 2

\* C2 as stated: a single modification event invokes the copy of at most one
\* pair, the first matching one.
C2_Original == \A id \in 1..Len(evlog) : CopiesOf(id) <= 1

\* C2 amended: a single event acts on every position of the watch list at most
\* once and in watch-list order: the k-th clock reading of the event is made
\* for the k-th matching position, every reading but the last invoked a copy,
\* and an event that was not dropped has invoked the copy of every matching
\* position.
C2_Amended ==
  \A id \in 1..Len(evlog) :
    LET r == Reads(id)
        mp == MatchingPositions(evlog[id].src_path)
    IN  /\ \A k \in 1..Len(r) :
              /\ r[k][1] \in mp
              /\ Cardinality({ j \in mp : j < r[k][1] }) = k - 1
              /\ k < Len(r) => r[k][3] = "copy"
        /\ (evlog[id].done /\ (r = <<>> \/ r[Len(r)][3] = "copy")) =>
              Len(r) = Cardinality(mp)

\* one event on a source shared by pair4 and pair5 has invoked both copies
C2_Witness ==
  /\ watch_pairs = <<"pair4", "pair5">>
  /\ Len(evlog) >= 1
  /\ evlog[1].done
  /\ CopiesOf(1) = 2
  /\ destination_folder = "t_ff"

\* the event in hand is dropped by this step, at position j of the watch list
DroppedAt(id, j) ==
  /\ id \in 1..Len(evlog)
  /\ Len(evlog'[id].reads) = Len(evlog[id].reads) + 1
  /\ evlog'[id].reads[Len(evlog'[id].reads)] = <<j, now, "drop">>

\* C3: the debounce window is per pair: an event is dropped for a pair P only
\* if P itself was triggered less than 2 seconds earlier, never because of the
\* recent trigger of another pair Q.
C3_PerPairWindow ==
  [][ \A id \in 1..Len(evlog), j \in 1..Len(HandlerWatchPairs) :
        DroppedAt(id, j) =>
          \A i \in MatchingPositions(evlog[id].src_path) :
            Debounced(HandlerWatchPairs[i], now) ]_vars

InProgress == { id \in 1..Len(evlog) : evlog[id].taken >= 0 /\ ~evlog[id].done }

\* the copies triggered so far: <<pair id, time of the clock reading>>
Triggers ==
  { <<id, k>> \in (1..Len(evlog)) \X (1..Len(HandlerWatchPairs)) :
      k <= Len(Reads(id)) /\ Reads(id)[k][3] = "copy" }

TriggerPair(t) == HandlerWatchPairs[Reads(t[1])[t[2]][1]]
TriggerTime(t) == Reads(t[1])[t[2]][2]

\* C9: at most one event is inside on_modified at any time, and no two copies
\* of one pair are started on readings of the clock less than 2 seconds apart.
C9_Serial ==
  /\ Cardinality(InProgress) <= 1
  /\ (h_pc = "copying") = (InProgress # {})
  /\ \A t1, t2 \in Triggers :
       (t1 # t2 /\ TriggerPair(t1) = TriggerPair(t2)) =>
          \/ TriggerTime(t1) - TriggerTime(t2) >= Window
          \/ TriggerTime(t2) - TriggerTime(t1) >= Window

\* a second event on the same file waits in the queue while the copy that the
\* first one triggered is still running
C9_Witness ==
  /\ h_pc = "copying"
  /\ c_pc = "loop"
  /\ Len(evlog) = 2
  /\ queue = <<2>>
  /\ evlog[1].src_path = evlog[2].src_path
  /\ evlog[2].at - evlog[1].at < Window

\* ============================================================= the program
CopyCut == c_pc \in {"call", "loop"}

WatchingAt(i) == i.observer = "running"

\* C10 as stated: after an interrupt that arrived while the watcher was
\* Watching the process exits with code 0, and a copy in progress has run to
\* its end before the exit.
C10_Original ==
  (m_pc = "exited" /\ \E k \in 1..Len(interrupts) : WatchingAt(interrupts[k])) =>
     (exit_code = 0 /\ ~CopyCut)

\* C10 amended: an interrupt that arrives while the main thread is in the sleep
\* loop stops the watch loop and the process eventually exits; when no further
\* interrupt arrives before the exit, the exit code is 0 and no copy is left
\* unfinished.
C10_Amended ==
  /\ []( ( /\ m_pc = "exited"
           /\ Len(interrupts) = 1
           /\ interrupts[1].at = "loop" ) =>
         (exit_code = 0 /\ ~CopyCut /\ h_pc = "idle") )
  /\ ( (m_pc = "stopping") ~> (m_pc = "exited") )

\* the interrupt arrived during a copy, which went to its summary before exit 0
C10_Witness ==
  /\ m_pc = "exited"
  /\ exit_code = 0
  /\ Len(interrupts) = 1
  /\ interrupts[1].copying
  /\ c_pc = "returned"
  /\ Len(attempts) = Len(source_files)

Unregistered(id) == id \notin RegistryIds

InvalidSupplied == \E k \in 1..Len(args.pairs) : Unregistered(args.pairs[k])

NothingDone ==
  /\ observer = "new"
  /\ watched_dirs = {}
  /\ watches = <<>>
  /\ c_pc = "idle"
  /\ fs = entry.fs
  /\ dstate = entry.dstate

RejectedOrStarting ==
  /\ m_pc \in {"start", "exited"}
  /\ m_pc = "exited" =>
       (exit_code = 1 /\ reported = SelectSeq(args.pairs, Unregistered))
  /\ NothingDone

\* C7 as stated: whenever the command line supplies a --pairs list with an id
\* absent from the registry, the program reports the invalid ids and exits
\* with code 1 before any watch, copy or filesystem write.
C7_Original == InvalidSupplied => RejectedOrStarting

\* C7 amended: the same, when the command line has --auto and a non-empty
\* --pairs value; without --auto the option is not looked at.
C7_Amended ==
  (args.auto /\ Truthy(args.pairs) /\ InvalidSupplied) => RejectedOrStarting

C7_Witness ==
  /\ args = [auto |-> TRUE, pairs |-> <<"pair1", "pair9">>]
  /\ m_pc = "exited"
  /\ exit_code = 1
  /\ reported = <<"pair9">>

\* C8: no filesystem error ends the process or the observer thread early: the
\* process exits only on an invalid --pairs list, on an interrupt, or with its
\* work finished, and a directory that cannot be created is counted as a
\* failure of its pair.
C8_NoEarlyEnd ==
  /\ c_pc # "raised"
  /\ observer # "dead"
  /\ m_pc = "exited" =>
       \/ exit_code = 1 /\ reported # <<>>
       \/ interrupts # <<>>
       \/ exit_code = 0

\* ============================================================ the watches
WatchedSources ==
  UNION { Range(file_pairs[id].source_files) : id \in Range(watch_pairs) \cap RegistryIds }

\* C11: once watch mode has started, the registered watches are exactly the
\* distinct parent directories of the source files of the watched pairs, each
\* registered once and none recursively.
C11_Watches ==
  observer # "new" =>
    /\ { w.path : w \in Range(watches) } = { Parent(f) : f \in WatchedSources }
    /\ \A j, k \in 1..Len(watches) : watches[j].path = watches[k].path => j = k
    /\ \A k \in 1..Len(watches) : ~watches[k].recursive

\* all five pairs are watched: four directories, pair4 and pair5 sharing one
C11_Witness ==
  /\ observer = "running"
  /\ watch_pairs = PairIds
  /\ Len(watches) = 4
  /\ { w.path : w \in Range(watches) } = SourceDirs

\* ------------------------------------------------------------------ C12
\* option 2 of select_copy_mode was the last line typed: the copy-all branch
CopyAllChosen ==
  typed.prompt = "select_copy_mode" /\ Without(typed.text, " ") = <<"2">>

RECURSIVE SumSuccess(_)
SumSuccess(log) ==
  IF log = <<>> THEN 0 ELSE log[1].success + SumSuccess(Tail(log))

RECURSIVE SumError(_)
SumError(log) ==
  IF log = <<>> THEN 0 ELSE log[1].error + SumError(Tail(log))

\* C12: when a manual copy-all run has ended, every registered pair has been
\* processed exactly once, in registry order, and the grand totals are the
\* sums over the pairs of the success and failure counts the copy routine
\* computed for them.
C12_CopyAllTotals ==
  (CopyAllChosen /\ m_pc = "exited") =>
    /\ [ k \in 1..Len(processed) |-> processed[k].pair ] = PairIds
    /\ total_success = SumSuccess(processed)
    /\ total_error = SumError(processed)

\* the same for the runs that end on line 348, after the totals were printed
C12_WhenTotalsPrinted ==
  (CopyAllChosen /\ m_pc = "exited" /\ exit_code = 0) =>
    /\ [ k \in 1..Len(processed) |-> processed[k].pair ] = PairIds
    /\ total_success = SumSuccess(processed)
    /\ total_error = SumError(processed)

\* a copy-all run that printed totals with failures among them
C12_TotalsReached ==
  CopyAllChosen /\ m_pc = "exited" /\ exit_code = 0 /\ total_error > 0 /\ total_success > 0

\* ------------------------------------------------------------------ C13
\* the step is a successful copy of the file at position idx
CopiedStep == c_pc = "loop" /\ success_count' = success_count + 1

\* the line the step printed
PrintedLine == output'[Len(output')]

\* the number of bytes a bracketed change in bytes stands for: "+2B" is 2,
\* "-1B" is -1, "0B" is 0
ChangeInBytes(text) ==
  LET body == IF text[1] \in {"+", "-"} THEN Tail(text) ELSE text
      n == Int_(SubSeq(body, 1, Len(body) - 1))
  IN  IF text[1] = "-" THEN 0 - n ELSE n

\* C13: a successful copy leaves the destination file equal to the source;
\* its report line carries a signed change whenever a file of that name was
\* in the destination before, whatever its size, and the change is the new
\* size minus the prior size; it carries none when there was no such file.
C13_DeltaWhenPrior ==
  [][ CopiedStep =>
        LET source_file == source_files[idx]
            destination_file == DestinationOf(source_file)
        IN  /\ fs'[destination_file] = fs[source_file]
            /\ IF destination_file \in DOMAIN fs
                 THEN /\ PrintedLine.delta # NoText
                      /\ ChangeInBytes(PrintedLine.delta)
                           = Len(fs'[destination_file]) - Len(fs[destination_file])
                 ELSE PrintedLine.delta = NoText ]_vars

\* the same with "a prior file of at least one byte": what lines 66-67 do
C13_DeltaWhenPriorNotEmpty ==
  [][ CopiedStep =>
        LET source_file == source_files[idx]
            destination_file == DestinationOf(source_file)
        IN  /\ fs'[destination_file] = fs[source_file]
            /\ IF destination_file \in DOMAIN fs /\ Len(fs[destination_file]) > 0
                 THEN /\ PrintedLine.delta # NoText
                      /\ ChangeInBytes(PrintedLine.delta)
                           = Len(fs'[destination_file]) - Len(fs[destination_file])
                 ELSE PrintedLine.delta = NoText ]_vars

\* ------------------------------------------------------------------ C14
\* the sizes, when the routine was called, of the sources among the first k
\* of the list whose copy succeeded
RECURSIVE CopiedBytes(_)
CopiedBytes(k) ==
  IF k = 0 THEN 0
  ELSE CopiedBytes(k - 1)
         + (IF attempts[k][2] = "copied" THEN Len(entry.fs[attempts[k][1]]) ELSE 0)

\* the number of bytes a size printed in bytes stands for: "30B" is 30
BytesOf(text) == Int_(SubSeq(text, 1, Len(text) - 1))

\* the last line printed: the summary, once the routine has returned
LastLine == output[Len(output)]

\* C14: in the summary of a batch the aggregate destination size is the sum of
\* the sizes of the sources whose copy succeeded; when every file of the batch
\* succeeded the aggregate source size is the same and no change is bracketed.
C14_Aggregates ==
  c_pc = "returned" =>
    /\ LastLine.kind = "summary"
    /\ BytesOf(LastLine.after) = CopiedBytes(Len(attempts))
    /\ total_dest_size = CopiedBytes(Len(attempts))
    /\ (Outcomes("copied") = 1..N) =>
         /\ BytesOf(LastLine.before) = BytesOf(LastLine.after)
         /\ LastLine.delta = NoText

\* two sources of different sizes, both copied: 1 + 2 bytes give 3B → 3B
C14_Witness ==
  /\ c_pc = "returned"
  /\ N = 2
  /\ Outcomes("copied") = 1..N
  /\ Len(entry.fs[source_files[1]]) # Len(entry.fs[source_files[2]])
  /\ LastLine.before = <<"3", "B">>
  /\ LastLine.after = <<"3", "B">>

\* ------------------------------------------------------------------ C15
\* the typed line, spaces aside, is the decimal numeral of k
Denotes(text, k) == Without(text, " ") = Str(k)

\* the typed line is the token 'all', in any case
IsAll(text) == Lower(Without(text, " ")) = <<"a", "l", "l">>

\* the variables a prompt may not touch while it asks again
OutsidePrompt == <<fsVars, copyVars, args, formatVars, processed, watch_pairs, reported,
                   exit_code, pair_i, total_success, total_error, watchVars>>

Prompting == m_pc \in {"select_mode", "select_pair", "select_watch"}

\* C15: a selector returns only valid values. select_copy_mode returns on a
\* line that is 1 or 2 and with that mode; select_file_pair returns the
\* registry id at the entered ordinal, which is in 1..number of pairs;
\* select_watch_pairs returns a non-empty list of registry ids: all of them in
\* registry order for 'all', else the id at every entered ordinal, in the
\* order entered. On any other line the selector asks again: it keeps nothing
\* of the line and changes nothing else.
C15_Selectors ==
  [][ /\ (m_pc = "select_mode" /\ m_pc' # m_pc) =>
           \/ Denotes(typed'.text, 1) /\ m_pc' = "select_pair"
           \/ Denotes(typed'.text, 2) /\ m_pc' = "copy_all"
      /\ (m_pc = "select_pair" /\ m_pc' # m_pc) =>
           \E k \in 1..Len(PairIds) :
             /\ Denotes(typed'.text, k)
             /\ source_files' = file_pairs[PairIds[k]].source_files
             /\ destination_folder' = file_pairs[PairIds[k]].target_folder
      /\ (m_pc = "select_watch" /\ m_pc' # m_pc) =>
           /\ watch_pairs' # <<>>
           /\ Range(watch_pairs') \subseteq RegistryIds
           /\ IF IsAll(typed'.text)
                THEN watch_pairs' = PairIds
                ELSE LET parts == Split(typed'.text, ",")
                     IN  /\ Len(watch_pairs') = Len(parts)
                         /\ \A j \in 1..Len(parts) :
                              \E k \in 1..Len(PairIds) :
                                Denotes(parts[j], k) /\ watch_pairs'[j] = PairIds[k]
      /\ (Prompting /\ m_pc' = m_pc) => UNCHANGED OutsidePrompt ]_vars

\* select_watch_pairs has read "1,0", dropped the pair1 it had selected and
\* asks again
C15_Witness ==
  /\ m_pc = "select_watch"
  /\ typed = [prompt |-> "select_watch_pairs", text |-> <<"1", ",", "0">>]
  /\ watch_pairs = <<>>

\* ------------------------------------------------------------------ C16
AllDigits(text) == text # <<>> /\ \A k \in 1..Len(text) : text[k] \in Range(DigitChars)

\* text is the numeral of n: digits only, no leading zero, of value n
NumeralOf(text, n) ==
  /\ AllDigits(text)
  /\ Len(text) > 1 => text[1] # "0"
  /\ Int_(text) = n

\* text is num/den written with two decimals: a numeral, a point and two
\* digits, and no other such number is nearer to num/den
TwoDecimalsOf(text, num, den) ==
  /\ Len(text) >= 4
  /\ text[Len(text) - 2] = "."
  /\ LET whole == SubSeq(text, 1, Len(text) - 3)
         cents == SubSeq(text, Len(text) - 1, Len(text))
     IN  /\ AllDigits(whole)
         /\ Len(whole) > 1 => whole[1] # "0"
         /\ AllDigits(cents)
         /\ LET h == 100 * Int_(whole) + Int_(cents)
                gap == h * den - 100 * num
            IN  2 * gap <= den /\ 2 * (0 - gap) <= den

\* the text without its last n characters, and those characters
Front(text, n) == SubSeq(text, 1, Len(text) - n)
Back(text, n) == SubSeq(text, Len(text) - n + 1, Len(text))

\* C16: format_size chooses the unit by range. Below 1024 the result is the
\* decimal digits of b and 'B'; from 1024 to below 1024*1024 it is b/1024 with
\* two decimals and 'KB'; from 1024*1024 on it is b/(1024*1024) with two
\* decimals and 'MB'.
C16_Units ==
  formatted # NoText =>
    IF size_bytes < 1024
      THEN /\ Back(formatted, 1) = <<"B">>
           /\ NumeralOf(Front(formatted, 1), size_bytes)
    ELSE IF size_bytes < 1024 * 1024
      THEN /\ Len(formatted) > 2
           /\ Back(formatted, 2) = <<"K", "B">>
           /\ TwoDecimalsOf(Front(formatted, 2), size_bytes, 1024)
    ELSE /\ Len(formatted) > 2
         /\ Back(formatted, 2) = <<"M", "B">>
         /\ TwoDecimalsOf(Front(formatted, 2), size_bytes, 1024 * 1024)

\* 1024 bytes, the first size of the second range, give "1.00KB"
C16_Witness ==
  size_bytes = 1024 /\ formatted = <<"1", ".", "0", "0", "K", "B">>

\* ------------------------------------------------------------------ C17
\* The watcher is Idle until observer.start(), then Watching, and Stopped
\* once the observer thread has ended: it was stopped and has finished the
\* event it had in hand, or an exception ended it, or the process exited.
Watcher ==
  IF observer = "new" THEN "Idle"
  ELSE IF observer = "dead" \/ ~Alive \/ (observer = "stopping" /\ h_pc = "idle")
    THEN "Stopped"
  ELSE "Watching"

\* the step is the handler calling copy_files_with_replace
HandlerCopies == h_pc' = "copying" /\ c_pc' = "call" /\ c_pc # "call"

\* C17: the watcher only moves from Idle to Watching and from Watching to
\* Stopped; the handler calls the copy routine only while the watcher is
\* Watching; a Stopped watcher stays Stopped.
C17_Lifecycle ==
  [][ /\ Watcher = "Idle" => Watcher' \in {"Idle", "Watching"}
      /\ Watcher = "Watching" => Watcher' \in {"Watching", "Stopped"}
      /\ Watcher = "Stopped" => Watcher' = "Stopped"
      /\ HandlerCopies => (Watcher = "Watching" /\ Watcher' = "Watching") ]_vars

\* the watcher has stopped on Ctrl+C after the handler copied for an event,
\* and an event that came too late is still in the queue
C17_Witness ==
  /\ Watcher = "Stopped"
  /\ observer = "stopping"
  /\ queue # <<>>
  /\ \E id \in 1..Len(evlog) : CopiesOf(id) > 0

\* ------------------------------------------------------------------ C18
\* the step ends an event without a copy: the debounce check drops it
DropStep == \E id \in 1..Len(evlog), j \in 1..Len(HandlerWatchPairs) : DroppedAt(id, j)

\* the step takes an event and ends it at once, no pair having been looked at:
\* a directory event, or a path that is no source file of a watched pair
IgnoreStep ==
  \E id \in 1..Len(evlog) :
    /\ evlog[id].taken < 0
    /\ evlog'[id].done
    /\ evlog'[id].reads = <<>>

\* the time of the latest copy triggered for a pair, 0 when there is none
LastTrigger(pair_id) ==
  LET times == { TriggerTime(t) : t \in { u \in Triggers : TriggerPair(u) = pair_id } }
  IN  IF times = {} THEN 0 ELSE CHOOSE x \in times : \A y \in times : y <= x

\* C18: a step that drops an event in the debounce check, or that ignores a
\* directory event or an event on a file no watched pair lists, leaves every
\* last-trigger time as it was, writes nothing to the filesystem and leaves
\* the copy routine alone; so the last-trigger time of a pair is always the
\* time of the last copy triggered for it, never the time of a dropped event.
C18_DropsChangeNothing ==
  [][ /\ (DropStep \/ IgnoreStep) =>
           /\ last_triggered' = last_triggered
           /\ UNCHANGED fsVars
           /\ UNCHANGED copyVars
      /\ observer' # "new" =>
           \A pair_id \in DOMAIN last_triggered' :
             last_triggered'[pair_id] = LastTrigger(pair_id)' ]_vars

\* a copy, then a drop for the same pair one second later, then a copy again
\* two seconds after the first copy: the drop did not restart the window
C18_Witness ==
  \E t1, t2 \in Triggers :
    /\ TriggerPair(t1) = TriggerPair(t2)
    /\ TriggerTime(t2) = TriggerTime(t1) + Window
    /\ \E id \in 1..Len(evlog) :
         /\ Reads(id) # <<>>
         /\ Reads(id)[Len(Reads(id))][3] = "drop"
         /\ HandlerWatchPairs[Reads(id)[Len(Reads(id))][1]] = TriggerPair(t1)
         /\ Reads(id)[Len(Reads(id))][2] = TriggerTime(t1) + 1

\* ------------------------------------------------------------------ C19
\* the base names of the listed sources
SourceNames == { Name(source_files[k]) : k \in 1..N }

\* the files the routine may write: in the destination folder, named like a
\* listed source
Writable(p) == Parent(p) = destination_folder /\ Name(p) \in SourceNames

\* no file is removed, and no file other than the writable ones is created or
\* changed
OnlyWritableChanged ==
  /\ DOMAIN entry.fs \subseteq DOMAIN fs
  /\ \A p \in DOMAIN fs :
       (p \notin DOMAIN entry.fs \/ fs[p] # entry.fs[p]) => Writable(p)

\* the file is as it was when the routine was called
Untouched(p) == p \in DOMAIN fs /\ fs[p] = entry.fs[p]

\* C19 as stated: the routine writes only to files of the destination folder
\* named like a listed source, leaves every other file there unchanged, and
\* modifies or removes no source file, a source in the destination folder
\* included.
C19_Original ==
  /\ OnlyWritableChanged
  /\ \A k \in 1..N : source_files[k] \in DOMAIN entry.fs => Untouched(source_files[k])

\* no other listed source has the base name of this one
OnlyOfItsName(source_file) ==
  \A k \in 1..N : Name(source_files[k]) = Name(source_file) => source_files[k] = source_file

\* C19 amended: as stated for every source outside the destination folder; a
\* source inside the destination folder is never removed, and is unchanged
\* unless another listed source has its base name.
C19_Amended ==
  /\ OnlyWritableChanged
  /\ \A k \in 1..N :
       (/\ source_files[k] \in DOMAIN entry.fs
        /\ Parent(source_files[k]) # destination_folder \/ OnlyOfItsName(source_files[k]))
         => Untouched(source_files[k])

\* a batch with a source that lies in the destination folder: it is as before,
\* another source was copied in, and notes.txt next to them is as before
C19_Witness ==
  /\ c_pc = "returned"
  /\ <<"t_ff", "main.js">> \in Range(source_files)
  /\ <<"t_ff", "main.js">> \in DOMAIN entry.fs
  /\ Untouched(<<"t_ff", "main.js">>)
  /\ <<"t_ff", "notes.txt">> \in DOMAIN fs
  /\ success_count > 0
====
